---- MODULE Spec2Model ----
(***************************************************************************)
(* Model of compute_metrics, the CPSC2020 score function for premature     *)
(* beat detection (torch_ecg/databases/cpsc_databases/cpsc2020.py).        *)
(*                                                                         *)
(* One call of compute_metrics is a run of the state machine: Init is the  *)
(* call with its five arguments bound, Alloc allocates the score arrays,   *)
(* ScoreRecord is one iteration of the loop over zip(sbp_true, pvc_true,   *)
(* sbp_pred, pvc_pred), and ReturnCompact / ReturnDetailed / RaiseUnbound  *)
(* are the three ways the code after the loop can end.                     *)
(*                                                                         *)
(* Beat indices are numpy integers (int64); every value of the model is    *)
(* far below 2^63, so they are modelled as unbounded integers.             *)
(***************************************************************************)
EXTENDS Integers, Sequences, FiniteSets

VARIABLES
    sbp_true,   \* argument: per recording, the reference SPB indices
    pvc_true,   \* argument: per recording, the reference PVC indices
    sbp_pred,   \* argument: per recording, the predicted SPB indices
    pvc_pred,   \* argument: per recording, the predicted PVC indices
    verbose,    \* argument: verbosity level
    pc,         \* "start", "loop", "done" (returned) or "raised"
    i,          \* number of loop iterations done (the next value of i)
    s_tp, s_fp, s_fn,   \* locals of the loop body, SPB (Unbound before it ran)
    v_tp, v_fp, v_fn,   \* locals of the loop body, PVC
    s_score,    \* numpy int array, one entry per recording
    v_score,
    retval      \* what the call returned (kind "tuple" or "CFG") or raised

args == <<sbp_true, pvc_true, sbp_pred, pvc_pred, verbose>>
locals == <<s_tp, s_fp, s_fn, v_tp, v_fp, v_fn>>
vars == <<sbp_true, pvc_true, sbp_pred, pvc_pred, verbose, pc, i,
          s_tp, s_fp, s_fn, v_tp, v_fp, v_fn, s_score, v_score, retval>>

----------------------------------------------------------------------------
(* Bounds of the model. *)

\* recordings per call in the corpus specifications
MaxRec == 2
\* beat indices in all four lists together, corpus specifications
MaxTotal == 3
\* beat indices in all four lists together, single-recording specification
MaxIdx == 4

\* beat indices of the one beat type, one-type specification
MaxOne == 5

\* The sample indices beats are drawn from.  With bias_thr = 60:
\* 0 and 60 are at distance exactly 60, 60 and 121 at distance exactly 61,
\* 0 and 121 far apart.
Pos == {0, 60, 121}

\* The sample indices of the corpus specifications: two beats more than
\* bias_thr apart.
CorpusPos == {0, 61}

\* The sample indices of the one-type specification: 0, 30 and 60 are
\* within bias_thr of each other, 121 is more than bias_thr from all three.
OnePos == {0, 30, 60, 121}

----------------------------------------------------------------------------
(* Constants of the code. *)

\* BaseCfg.fs = 400
fs == 400

\* BaseCfg.bias_thr = 0.15 * BaseCfg.fs  (60.0; compared with integers only)
bias_thr == (15 * fs) \div 100

\* A local name that no assignment has bound yet.
Unbound == 0 - 1

----------------------------------------------------------------------------
(* Helpers: numpy and builtins as the code uses them. *)

Abs(x) == IF x < 0 THEN 0 - x ELSE x

Min2(a, b) == IF a <= b THEN a ELSE b

\* np.zeros([n], dtype=int)
Zeros(n) == [k \in 1..n |-> 0]

\* the number of tuples zip(sbp_true, pvc_true, sbp_pred, pvc_pred) yields
ZipLen(st, vt, sp, vp) == Min2(Min2(Len(st), Len(vt)), Min2(Len(sp), Len(vp)))

RECURSIVE SumFrom(_, _)
SumFrom(a, k) == IF k > Len(a) THEN 0 ELSE a[k] + SumFrom(a, k + 1)

\* np.sum(a)
np_sum(a) == SumFrom(a, 1)

\* PosCand with "<" for "<=": a prediction at distance bias_thr is no match
PosCand_Strict(pos, ans) == {j \in 1..Len(pos) : Abs(pos[j] - ans) < bias_thr}

\* PosCand over np.unique(pos): equal predictions are one candidate
PosCand_Unique(pos, ans) ==
    {j \in 1..Len(pos) : /\ Abs(pos[j] - ans) <= bias_thr
                         /\ \A h \in 1..(j - 1) : pos[h] # pos[j]}

\* PosCand by a scan of pos that stops at the first prediction beyond
\* ans + bias_thr, as if pos were sorted
PosCand_SortedScan(pos, ans) ==
    {j \in 1..Len(pos) : /\ Abs(pos[j] - ans) <= bias_thr
                         /\ \A h \in 1..(j - 1) : pos[h] <= ans + bias_thr}

\* np.where(abs(pos - ans) <= BaseCfg.bias_thr)[0]: the positions in pos
\* (1-based here) of the predictions within the threshold of ans
PosCand(pos, ans) == {j \in 1..Len(pos) : Abs(pos[j] - ans) <= bias_thr}

----------------------------------------------------------------------------
(* The loop body, SPB part. *)

\* SbpStep with "s_fp = len(s_pos_cand) - 1": the count starts again at
\* every matched reference
SbpStep_ResetFp(s_pos, ans, c) ==
    LET s_pos_cand == PosCand(s_pos, ans)
    IN  IF Cardinality(s_pos_cand) = 0
        THEN [c EXCEPT !.fn = @ + 1]
        ELSE [c EXCEPT !.tp = @ + 1, !.fp = Cardinality(s_pos_cand) - 1]

\* SbpStep with "s_tp += len(s_pos_cand)": every candidate is a true positive
SbpStep_TpPerCand(s_pos, ans, c) ==
    LET s_pos_cand == PosCand(s_pos, ans)
    IN  IF Cardinality(s_pos_cand) = 0
        THEN [c EXCEPT !.fn = @ + 1]
        ELSE [c EXCEPT !.tp = @ + Cardinality(s_pos_cand),
                       !.fp = @ + Cardinality(s_pos_cand) - 1]

\* SbpStep without "s_fp += len(s_pos_cand) - 1"
SbpStep_NoFp(s_pos, ans, c) ==
    LET s_pos_cand == PosCand(s_pos, ans)
    IN  IF Cardinality(s_pos_cand) = 0
        THEN [c EXCEPT !.fn = @ + 1]
        ELSE [c EXCEPT !.tp = @ + 1]

\* one iteration of "for m, ans in enumerate(s_ref)": c holds s_tp, s_fp, s_fn
SbpStep(s_pos, ans, c) ==
    LET s_pos_cand == PosCand(s_pos, ans)
    IN  IF Cardinality(s_pos_cand) = 0
        THEN [c EXCEPT !.fn = @ + 1]
        ELSE [c EXCEPT !.tp = @ + 1, !.fp = @ + Cardinality(s_pos_cand) - 1]

RECURSIVE SbpLoop(_, _, _, _)
\* the iterations m, m+1, ... of the loop over s_ref
SbpLoop(s_ref, s_pos, m, c) ==
    IF m > Len(s_ref) THEN c
    ELSE SbpLoop(s_ref, s_pos, m + 1, SbpStep(s_pos, s_ref[m], c))

\* SbpCounts without the branch for an empty s_ref
SbpCounts_NoEmptyBranch(s_ref, s_pos) ==
    SbpLoop(s_ref, s_pos, 1, [tp |-> 0, fp |-> 0, fn |-> 0])

\* SbpCounts that also counts, as false positives, the predictions that are
\* candidates of no reference
SbpCounts_CountsFar(s_ref, s_pos) ==
    IF Len(s_ref) = 0
    THEN [tp |-> 0, fp |-> Len(s_pos), fn |-> 0]
    ELSE LET c == SbpLoop(s_ref, s_pos, 1, [tp |-> 0, fp |-> 0, fn |-> 0])
             far == {j \in 1..Len(s_pos) :
                        \A m \in 1..Len(s_ref) : j \notin PosCand(s_pos, s_ref[m])}
         IN  [c EXCEPT !.fp = @ + Cardinality(far)]

\* SbpCounts with every prediction a candidate of one reference only, the
\* first in s_ref that it is near
SbpCounts_EachPredOnce(s_ref, s_pos) ==
    IF Len(s_ref) = 0
    THEN [tp |-> 0, fp |-> Len(s_pos), fn |-> 0]
    ELSE LET cand(m) == {j \in PosCand(s_pos, s_ref[m]) :
                            \A h \in 1..(m - 1) : j \notin PosCand(s_pos, s_ref[h])}
             fp[m \in 0..Len(s_ref)] ==
                 IF m = 0 THEN 0
                 ELSE fp[m - 1] + (IF cand(m) = {} THEN 0 ELSE Cardinality(cand(m)) - 1)
         IN  [tp |-> Cardinality({m \in 1..Len(s_ref) : cand(m) # {}}),
              fp |-> fp[Len(s_ref)],
              fn |-> Cardinality({m \in 1..Len(s_ref) : cand(m) = {}})]

\* s_tp, s_fp, s_fn of one recording
SbpCounts(s_ref, s_pos) ==
    IF Len(s_ref) = 0
    THEN [tp |-> 0, fp |-> Len(s_pos), fn |-> 0]
    ELSE SbpLoop(s_ref, s_pos, 1, [tp |-> 0, fp |-> 0, fn |-> 0])

(* The loop body, PVC part. *)

\* one iteration of "for m, ans in enumerate(v_ref)": c holds v_tp, v_fp, v_fn
PvcStep(v_pos, ans, c) ==
    LET v_pos_cand == PosCand(v_pos, ans)
    IN  IF Cardinality(v_pos_cand) = 0
        THEN [c EXCEPT !.fn = @ + 1]
        ELSE [c EXCEPT !.tp = @ + 1, !.fp = @ + Cardinality(v_pos_cand) - 1]

RECURSIVE PvcLoop(_, _, _, _)
\* the iterations m, m+1, ... of the loop over v_ref
PvcLoop(v_ref, v_pos, m, c) ==
    IF m > Len(v_ref) THEN c
    ELSE PvcLoop(v_ref, v_pos, m + 1, PvcStep(v_pos, v_ref[m], c))

\* v_tp, v_fp, v_fn of one recording
PvcCounts(v_ref, v_pos) ==
    IF Len(v_ref) = 0
    THEN [tp |-> 0, fp |-> Len(v_pos), fn |-> 0]
    ELSE PvcLoop(v_ref, v_pos, 1, [tp |-> 0, fp |-> 0, fn |-> 0])

\* ScoreOf with the two weights exchanged
ScoreOf_Swapped(fp, fn) == fp * (0 - 5) + fn * (0 - 1)

\* s_score[i] = s_fp * (-1) + s_fn * (-5), and the same for v_score[i]
ScoreOf(fp, fn) == fp * (0 - 1) + fn * (0 - 5)

----------------------------------------------------------------------------
(* The call as a function of its frame: the locals and the two arrays. *)

\* the frame when the loop is entered
Frame0(st) ==
    [s_tp |-> Unbound, s_fp |-> Unbound, s_fn |-> Unbound,
     v_tp |-> Unbound, v_fp |-> Unbound, v_fn |-> Unbound,
     s_score |-> Zeros(Len(st)), v_score |-> Zeros(Len(st))]

\* Body with the six counters set to 0 before the loop instead of in it:
\* the counts of a recording start from those of the recording before
Body_NoReset(fr, k, st, vt, sp, vp) ==
    LET s == SbpCounts(st[k], sp[k])
        v == PvcCounts(vt[k], vp[k])
        Old(x) == IF x = Unbound THEN 0 ELSE x
        n == [s_tp |-> Old(fr.s_tp) + s.tp, s_fp |-> Old(fr.s_fp) + s.fp,
              s_fn |-> Old(fr.s_fn) + s.fn, v_tp |-> Old(fr.v_tp) + v.tp,
              v_fp |-> Old(fr.v_fp) + v.fp, v_fn |-> Old(fr.v_fn) + v.fn]
    IN  [s_tp |-> n.s_tp, s_fp |-> n.s_fp, s_fn |-> n.s_fn,
         v_tp |-> n.v_tp, v_fp |-> n.v_fp, v_fn |-> n.v_fn,
         s_score |-> [fr.s_score EXCEPT ![k] = ScoreOf(n.s_fp, n.s_fn)],
         v_score |-> [fr.v_score EXCEPT ![k] = ScoreOf(n.v_fp, n.v_fn)]]

\* Body with the PVC references matched against s_pos, the SPB predictions
Body_CrossedPred(fr, k, st, vt, sp, vp) ==
    LET s == SbpCounts(st[k], sp[k])
        v == PvcCounts(vt[k], sp[k])
    IN  [s_tp |-> s.tp, s_fp |-> s.fp, s_fn |-> s.fn,
         v_tp |-> v.tp, v_fp |-> v.fp, v_fn |-> v.fn,
         s_score |-> [fr.s_score EXCEPT ![k] = ScoreOf(s.fp, s.fn)],
         v_score |-> [fr.v_score EXCEPT ![k] = ScoreOf(v.fp, v.fn)]]

\* Body with the six counters summed over the recordings (set to 0 before
\* the loop), the scores still those of each recording
Body_SummedCounts(fr, k, st, vt, sp, vp) ==
    LET s == SbpCounts(st[k], sp[k])
        v == PvcCounts(vt[k], vp[k])
        Old(x) == IF x = Unbound THEN 0 ELSE x
    IN  [s_tp |-> Old(fr.s_tp) + s.tp, s_fp |-> Old(fr.s_fp) + s.fp,
         s_fn |-> Old(fr.s_fn) + s.fn, v_tp |-> Old(fr.v_tp) + v.tp,
         v_fp |-> Old(fr.v_fp) + v.fp, v_fn |-> Old(fr.v_fn) + v.fn,
         s_score |-> [fr.s_score EXCEPT ![k] = ScoreOf(s.fp, s.fn)],
         v_score |-> [fr.v_score EXCEPT ![k] = ScoreOf(v.fp, v.fn)]]

\* the loop body for the k-th tuple of the zip (k counts from 1)
Body(fr, k, st, vt, sp, vp) ==
    LET s == SbpCounts(st[k], sp[k])
        v == PvcCounts(vt[k], vp[k])
    IN  [s_tp |-> s.tp, s_fp |-> s.fp, s_fn |-> s.fn,
         v_tp |-> v.tp, v_fp |-> v.fp, v_fn |-> v.fn,
         s_score |-> [fr.s_score EXCEPT ![k] = ScoreOf(s.fp, s.fn)],
         v_score |-> [fr.v_score EXCEPT ![k] = ScoreOf(v.fp, v.fn)]]

RECURSIVE Loop(_, _, _, _, _, _)
\* the iterations k, k+1, ... of the loop over the zip
Loop(fr, k, st, vt, sp, vp) ==
    IF k > ZipLen(st, vt, sp, vp) THEN fr
    ELSE Loop(Body(fr, k, st, vt, sp, vp), k + 1, st, vt, sp, vp)

\* Score1 as the score of the last recording only
Score1_Last(fr) ==
    IF Len(fr.s_score) = 0 THEN 0 ELSE fr.s_score[Len(fr.s_score)]

\* Score1 = np.sum(s_score)
Score1(fr) == np_sum(fr.s_score)

\* Score2 = np.sum(v_score)
Score2(fr) == np_sum(fr.v_score)

\* retval = Score1, Score2
CompactResult(fr) ==
    [kind |-> "tuple", Score1 |-> Score1(fr), Score2 |-> Score2(fr)]

\* DetailedResult with "total_loss = -Score1 + Score2"
DetailedResult_SignSlip(fr) ==
    [kind |-> "CFG",
     total_loss |-> (0 - Score1(fr)) + Score2(fr),
     class_loss |-> [S |-> 0 - Score1(fr), V |-> 0 - Score2(fr)],
     true_positive |-> [S |-> fr.s_tp, V |-> fr.v_tp],
     false_positive |-> [S |-> fr.s_fp, V |-> fr.v_fp],
     false_negative |-> [S |-> fr.s_fn, V |-> fr.v_fn]]

\* retval = CFG(total_loss=..., class_loss=..., true_positive=..., ...)
DetailedResult(fr) ==
    [kind |-> "CFG",
     total_loss |-> 0 - (Score1(fr) + Score2(fr)),
     class_loss |-> [S |-> 0 - Score1(fr), V |-> 0 - Score2(fr)],
     true_positive |-> [S |-> fr.s_tp, V |-> fr.v_tp],
     false_positive |-> [S |-> fr.s_fp, V |-> fr.v_fp],
     false_negative |-> [S |-> fr.s_fn, V |-> fr.v_fn]]

\* reading s_tp when the loop body never ran
UnboundError == [kind |-> "UnboundLocalError"]

\* the code after the loop
Result(fr, verb) ==
    IF verb >= 1
    THEN IF fr.s_tp = Unbound THEN UnboundError ELSE DetailedResult(fr)
    ELSE CompactResult(fr)

\* the whole call
compute_metrics(st, vt, sp, vp, verb) ==
    Result(Loop(Frame0(st), 1, st, vt, sp, vp), verb)

----------------------------------------------------------------------------
(* The calls the model makes. *)

\* the values of verbose: the default 0, and two that are >= 1
Verbosity == {0, 1, 2}

RECURSIVE Lengths(_, _)
\* the lengths of k index sequences that hold at most t indices together
Lengths(k, t) ==
    IF k = 0 THEN {<<>>}
    ELSE UNION {{<<l>> \o r : r \in Lengths(k - 1, t - l)} : l \in 0..t}

RECURSIVE Total(_, _)
\* lens[1] + ... + lens[j]
Total(lens, j) == IF j = 0 THEN 0 ELSE lens[j] + Total(lens, j - 1)

RECURSIVE CutFrom(_, _, _, _)
\* the index sequences of the lengths lens[j], lens[j+1], ... cut from the
\* indices c after its first off elements
CutFrom(c, lens, j, off) ==
    IF j > Len(lens) THEN <<>>
    ELSE <<SubSeq(c, off + 1, off + lens[j])>>
             \o CutFrom(c, lens, j + 1, off + lens[j])

\* the list of index sequences of the lengths lens that the indices c fill
Cut(c, lens) == CutFrom(c, lens, 1, 0)

\* a call whose four lists have a, b, c and d recordings, holding at most t
\* beat indices out of P
CallWith(a, b, c, d, t, P) ==
    \E lens \in Lengths(a + b + c + d, t), verb \in Verbosity :
        \E idx \in [1..Total(lens, Len(lens)) -> P] :
            LET flat == Cut(idx, lens)
            IN  /\ sbp_true = SubSeq(flat, 1, a)
                /\ pvc_true = SubSeq(flat, a + 1, a + b)
                /\ sbp_pred = SubSeq(flat, a + b + 1, a + b + c)
                /\ pvc_pred = SubSeq(flat, a + b + c + 1, a + b + c + d)
                /\ verbose = verb

\* a call on one recording that has beats of one type only (SPB or PVC),
\* at most t of them out of P
CallOneType(t, P) ==
    \E lens \in Lengths(2, t), verb \in Verbosity, spb \in BOOLEAN :
        \E idx \in [1..Total(lens, Len(lens)) -> P] :
            LET flat == Cut(idx, lens)
            IN  /\ sbp_true = <<IF spb THEN flat[1] ELSE <<>> >>
                /\ sbp_pred = <<IF spb THEN flat[2] ELSE <<>> >>
                /\ pvc_true = <<IF spb THEN <<>> ELSE flat[1]>>
                /\ pvc_pred = <<IF spb THEN <<>> ELSE flat[2]>>
                /\ verbose = verb

\* the frame before the function body has run
Entry ==
    /\ pc = "start"
    /\ i = 0
    /\ s_tp = Unbound /\ s_fp = Unbound /\ s_fn = Unbound
    /\ v_tp = Unbound /\ v_fp = Unbound /\ v_fn = Unbound
    /\ s_score = <<>>
    /\ v_score = <<>>
    /\ retval = [kind |-> "none"]

\* a call on a corpus of at most MaxRec recordings, four lists of one length
Init == Entry /\ \E n \in 0..MaxRec : CallWith(n, n, n, n, MaxTotal, CorpusPos)

\* a call on at most one recording, with up to MaxIdx beat indices
InitMatch == Entry /\ \E n \in 0..1 : CallWith(n, n, n, n, MaxIdx, Pos)

\* a call on four lists of any lengths
InitAnyLen ==
    Entry /\ \E a \in 0..MaxRec, b \in 0..MaxRec, c \in 0..MaxRec, d \in 0..MaxRec :
                CallWith(a, b, c, d, MaxTotal, CorpusPos)

\* a call on no recording, or on one recording with beats of one type
InitOneType ==
    Entry /\ (CallWith(0, 0, 0, 0, 0, OnePos) \/ CallOneType(MaxOne, OnePos))

----------------------------------------------------------------------------
(* The steps of a call. *)

\* the frame of the running call
Frame ==
    [s_tp |-> s_tp, s_fp |-> s_fp, s_fn |-> s_fn,
     v_tp |-> v_tp, v_fp |-> v_fp, v_fn |-> v_fn,
     s_score |-> s_score, v_score |-> v_score]

SetFrame(fr) ==
    /\ s_tp' = fr.s_tp /\ s_fp' = fr.s_fp /\ s_fn' = fr.s_fn
    /\ v_tp' = fr.v_tp /\ v_fp' = fr.v_fp /\ v_fn' = fr.v_fn
    /\ s_score' = fr.s_score
    /\ v_score' = fr.v_score

\* BaseCfg, s_score = np.zeros([len(sbp_true)]), v_score likewise
Alloc ==
    /\ pc = "start"
    /\ SetFrame(Frame0(sbp_true))
    /\ pc' = "loop"
    /\ UNCHANGED <<args, i, retval>>

\* ScoreRecord with "s_pos -= ans" for "s_pos - ans": the caller's array of
\* SPB predictions is shifted by every reference it is compared with
ScoreRecord_InPlace ==
    /\ pc = "loop"
    /\ i < ZipLen(sbp_true, pvc_true, sbp_pred, pvc_pred)
    /\ SetFrame(Body(Frame, i + 1, sbp_true, pvc_true, sbp_pred, pvc_pred))
    /\ i' = i + 1
    /\ sbp_pred' = [sbp_pred EXCEPT ![i + 1] =
                       [j \in 1..Len(@) |-> @[j] - np_sum(sbp_true[i + 1])]]
    /\ UNCHANGED <<sbp_true, pvc_true, pvc_pred, verbose, pc, retval>>

\* one iteration of the loop over the zip of the four lists
ScoreRecord ==
    /\ pc = "loop"
    /\ i < ZipLen(sbp_true, pvc_true, sbp_pred, pvc_pred)
    /\ SetFrame(Body(Frame, i + 1, sbp_true, pvc_true, sbp_pred, pvc_pred))
    /\ i' = i + 1
    /\ UNCHANGED <<args, pc, retval>>

LoopDone == pc = "loop" /\ i = ZipLen(sbp_true, pvc_true, sbp_pred, pvc_pred)

\* verbose < 1: retval = Score1, Score2.  (The source ends with this
\* assignment; that retval is then returned is what the docstring states.)
ReturnCompact ==
    /\ LoopDone
    /\ ~(verbose >= 1)
    /\ retval' = Result(Frame, verbose)
    /\ pc' = "done"
    /\ UNCHANGED <<args, i, locals, s_score, v_score>>

\* verbose >= 1 and the loop body ran: retval = CFG(...)
ReturnDetailed ==
    /\ LoopDone
    /\ verbose >= 1
    /\ s_tp # Unbound
    /\ retval' = Result(Frame, verbose)
    /\ pc' = "done"
    /\ UNCHANGED <<args, i, locals, s_score, v_score>>

\* verbose >= 1 and the loop body never ran: s_tp is read unbound
RaiseUnbound ==
    /\ LoopDone
    /\ verbose >= 1
    /\ s_tp = Unbound
    /\ retval' = Result(Frame, verbose)
    /\ pc' = "raised"
    /\ UNCHANGED <<args, i, locals, s_score, v_score>>

Next == Alloc \/ ScoreRecord \/ ReturnCompact \/ ReturnDetailed \/ RaiseUnbound

Spec == Init /\ [][Next]_vars

SpecMatch == InitMatch /\ [][Next]_vars

SpecOneType == InitOneType /\ [][Next]_vars

SpecAnyLen == InitAnyLen /\ [][Next]_vars

----------------------------------------------------------------------------
(* The reference matcher of the specification, stated on sets. *)

\* p and r are the same event: their distance is at most 60 samples
Near(p, r) == (IF p >= r THEN p - r ELSE r - p) <= 60

\* the number of predictions in P that are near the k-th reference of R
Hits(R, P, k) == Cardinality({j \in 1..Len(P) : Near(P[j], R[k])})

RefFn(R, P) == Cardinality({k \in 1..Len(R) : Hits(R, P, k) = 0})

RefTp(R, P) == Cardinality({k \in 1..Len(R) : Hits(R, P, k) > 0})

RECURSIVE ExtraUpTo(_, _, _)
\* the predictions beyond the first, summed over the matched references 1..k
ExtraUpTo(R, P, k) ==
    IF k = 0 THEN 0
    ELSE ExtraUpTo(R, P, k - 1) + (IF Hits(R, P, k) > 0 THEN Hits(R, P, k) - 1 ELSE 0)

RefFp(R, P) == ExtraUpTo(R, P, Len(R))

\* the counts the specification gives for one beat type of one recording
RefCounts(R, P) ==
    IF Len(R) = 0
    THEN [tp |-> 0, fp |-> Len(P), fn |-> 0]
    ELSE [tp |-> RefTp(R, P), fp |-> RefFp(R, P), fn |-> RefFn(R, P)]

\* the loop body has run: the locals hold the counts of recording i
Scored == i >= 1

\* the counts of recording i as the locals hold them
SCounts == [tp |-> s_tp, fp |-> s_fp, fn |-> s_fn]

VCounts == [tp |-> v_tp, fp |-> v_fp, fn |-> v_fn]

\* the predictions of P (by position) that are near no reference of R
FarIdx(R, P) ==
    {j \in 1..Len(P) : \A k \in 1..Len(R) : ~Near(P[j], R[k])}

RECURSIVE Without(_, _, _)
\* P from position j on, without the positions in D
Without(P, D, j) ==
    IF j > Len(P) THEN <<>>
    ELSE (IF j \in D THEN <<>> ELSE <<P[j]>>) \o Without(P, D, j + 1)

----------------------------------------------------------------------------
(* Claims about one beat type of one recording. *)

\* C1: with a non-empty reference sequence R, the counters of the loop body
\* equal the reference matcher: fn counts the references with no prediction
\* within 60, tp those with at least one, and fp sums (predictions within
\* 60) - 1 over the matched references.
C1_MatcherAgrees ==
    Scored =>
        /\ Len(sbp_true[i]) > 0 =>
              /\ s_fn = RefFn(sbp_true[i], sbp_pred[i])
              /\ s_tp = RefTp(sbp_true[i], sbp_pred[i])
              /\ s_fp = RefFp(sbp_true[i], sbp_pred[i])
        /\ Len(pvc_true[i]) > 0 =>
              /\ v_fn = RefFn(pvc_true[i], pvc_pred[i])
              /\ v_tp = RefTp(pvc_true[i], pvc_pred[i])
              /\ v_fp = RefFp(pvc_true[i], pvc_pred[i])

\* C1 witness: two distinct references, each matched by the same two
\* predictions, so that fp adds up over the references.
C1_Witness ==
    /\ Scored
    /\ Len(sbp_true[i]) = 2
    /\ sbp_true[i][1] # sbp_true[i][2]
    /\ Hits(sbp_true[i], sbp_pred[i], 1) = 2
    /\ Hits(sbp_true[i], sbp_pred[i], 2) = 2
    /\ s_tp = 2 /\ s_fp = 2 /\ s_fn = 0

\* C2: with an empty reference sequence, tp = 0, fn = 0 and fp = |P|, and
\* the score of that type of that recording is -|P|.
C2_EmptyReference ==
    Scored =>
        /\ Len(sbp_true[i]) = 0 =>
              /\ s_tp = 0 /\ s_fn = 0 /\ s_fp = Len(sbp_pred[i])
              /\ s_score[i] = 0 - Len(sbp_pred[i])
        /\ Len(pvc_true[i]) = 0 =>
              /\ v_tp = 0 /\ v_fn = 0 /\ v_fp = Len(pvc_pred[i])
              /\ v_score[i] = 0 - Len(pvc_pred[i])

\* C2 witness: no reference and the same prediction twice.
C2_Witness ==
    /\ Scored
    /\ Len(sbp_true[i]) = 0
    /\ Len(sbp_pred[i]) = 2
    /\ sbp_pred[i][1] = sbp_pred[i][2]
    /\ s_fp = 2
    /\ s_score[i] = 0 - 2

\* C3: after the matching loop, tp + fn = |R| and no counter is negative,
\* for each beat type.
C3_EveryReferenceOnce ==
    Scored =>
        /\ s_tp + s_fn = Len(sbp_true[i])
        /\ s_tp >= 0 /\ s_fp >= 0 /\ s_fn >= 0
        /\ v_tp + v_fn = Len(pvc_true[i])
        /\ v_tp >= 0 /\ v_fp >= 0 /\ v_fn >= 0

\* C3 witness: one reference matched by two predictions and one missed.
C3_Witness ==
    /\ Scored
    /\ Len(sbp_true[i]) = 2
    /\ Len(sbp_pred[i]) = 2
    /\ s_tp = 1 /\ s_fn = 1 /\ s_fp = 1

\* C5: with a non-empty R, predictions farther than 60 from every reference
\* are not counted: the counts and the score are those of P without any
\* set of such predictions, and (0, 0, |R|) when P holds no other.
C5_FarPredictionsIgnored ==
    Scored =>
        /\ Len(sbp_true[i]) > 0 =>
              /\ \A D \in SUBSET FarIdx(sbp_true[i], sbp_pred[i]) :
                    LET c == SbpCounts(sbp_true[i], Without(sbp_pred[i], D, 1))
                    IN  c = SCounts /\ ScoreOf(c.fp, c.fn) = s_score[i]
              /\ FarIdx(sbp_true[i], sbp_pred[i]) = 1..Len(sbp_pred[i]) =>
                    SCounts = [tp |-> 0, fp |-> 0, fn |-> Len(sbp_true[i])]
        /\ Len(pvc_true[i]) > 0 =>
              /\ \A D \in SUBSET FarIdx(pvc_true[i], pvc_pred[i]) :
                    LET c == PvcCounts(pvc_true[i], Without(pvc_pred[i], D, 1))
                    IN  c = VCounts /\ ScoreOf(c.fp, c.fn) = v_score[i]
              /\ FarIdx(pvc_true[i], pvc_pred[i]) = 1..Len(pvc_pred[i]) =>
                    VCounts = [tp |-> 0, fp |-> 0, fn |-> Len(pvc_true[i])]

\* C5 witness: a matched reference and two predictions far from it.
C5_Witness ==
    /\ Scored
    /\ Len(sbp_true[i]) = 1
    /\ Len(sbp_pred[i]) = 3
    /\ Cardinality(FarIdx(sbp_true[i], sbp_pred[i])) = 2
    /\ s_tp = 1 /\ s_fp = 0 /\ s_fn = 0

----------------------------------------------------------------------------
(* Claims about the scores of a corpus. *)

\* the score the specification gives one beat type of one recording
RefScore(R, P) == 0 - RefCounts(R, P).fp - 5 * RefCounts(R, P).fn

RECURSIVE RefTotal(_, _, _)
\* the sum of the scores of the recordings 1..n
RefTotal(T, P, n) ==
    IF n = 0 THEN 0 ELSE RefTotal(T, P, n - 1) + RefScore(T[n], P[n])

\* the call returned in compact mode
ReturnedCompact == pc = "done" /\ verbose = 0

\* C4: the score stored for a recording and a type is -fp - 5*fn of that
\* recording and type, hence at most 0.  (Of recording i the counts are
\* the locals; of an earlier one, the counts of the reference matcher.)
C4_StoredScore ==
    \A k \in 1..i :
        LET s == IF k = i THEN SCounts ELSE RefCounts(sbp_true[k], sbp_pred[k])
            v == IF k = i THEN VCounts ELSE RefCounts(pvc_true[k], pvc_pred[k])
        IN  /\ s_score[k] = 0 - s.fp - 5 * s.fn
            /\ v_score[k] = 0 - v.fp - 5 * v.fn
            /\ s_score[k] <= 0
            /\ v_score[k] <= 0

\* C4 witness: two recordings scored, one with an extra SPB prediction
\* (cost 1), the other with a missed SPB reference (cost 5).
C4_Witness ==
    /\ i = 2
    /\ s_fp = 0 /\ s_fn = 1
    /\ s_score = <<0 - 1, 0 - 5>>

\* C6: in compact mode on four lists of n recordings the result is the pair
\* of the sums, over all n recordings, of the per-recording scores of each
\* type; for n = 0 it is (0, 0).
C6_CompactTotals ==
    ReturnedCompact =>
        /\ retval = [kind |-> "tuple",
                     Score1 |-> RefTotal(sbp_true, sbp_pred, Len(sbp_true)),
                     Score2 |-> RefTotal(pvc_true, pvc_pred, Len(pvc_true))]
        /\ Len(sbp_true) = 0 => retval.Score1 = 0 /\ retval.Score2 = 0

\* C6 witness: a compact result over two recordings whose SPB scores are
\* -5 and -1 and whose PVC scores are 0 and -1.
C6_Witness ==
    /\ ReturnedCompact
    /\ s_score = <<0 - 5, 0 - 1>>
    /\ v_score = <<0, 0 - 1>>
    /\ retval.Score1 = 0 - 6
    /\ retval.Score2 = 0 - 1

\* C7: when the four lists do not all have the same outer length, the call
\* signals InvalidArgument before any recording is matched and returns no
\* result.
C7_MismatchRejected ==
    ~(Len(sbp_true) = Len(pvc_true) /\ Len(sbp_true) = Len(sbp_pred)
        /\ Len(sbp_true) = Len(pvc_pred)) =>
        /\ i = 0
        /\ pc # "done"
        /\ pc = "raised" => retval.kind = "InvalidArgument"

\* C8: on four lists of one length n >= 0, in compact and in detailed mode,
\* the call returns a result and never raises.
C8_NeverRaises ==
    (Len(sbp_true) = Len(pvc_true) /\ Len(sbp_true) = Len(sbp_pred)
        /\ Len(sbp_true) = Len(pvc_pred)) =>
        /\ pc # "raised"
        /\ retval.kind \in {"none", "tuple", "CFG"}

\* the permutations of 1..n
Perms(n) == {f \in [1..n -> 1..n] : \A a, b \in 1..n : f[a] = f[b] => a = b}

\* the list L with its recordings in the order f
Reorder(L, f) == [k \in 1..Len(L) |-> L[f[k]]]

\* C9: the compact result is the same when one permutation is applied to
\* all four lists.
C9_OrderInvariant ==
    ReturnedCompact =>
        \A f \in Perms(Len(sbp_true)) :
            compute_metrics(Reorder(sbp_true, f), Reorder(pvc_true, f),
                            Reorder(sbp_pred, f), Reorder(pvc_pred, f), verbose)
                = retval

\* C9 witness: a compact result over two recordings with different scores.
C9_Witness ==
    /\ ReturnedCompact
    /\ Len(sbp_true) = 2
    /\ s_score[1] # s_score[2]
    /\ v_score[1] # v_score[2]
    /\ retval.kind = "tuple"

\* n recordings without any beat
Empties(n) == [k \in 1..n |-> <<>>]

\* the first i recordings of L
Pre(L) == SubSeq(L, 1, i)

\* C10: the SPB counts of every recording and the SPB total do not depend
\* on the PVC lists, and symmetrically.  Every state is compared with the
\* call on the same lists of one type and (a) no beat of the other type,
\* (b) the other type's lists replaced by its own; as the lists of the
\* other type range over all the model's lists, its results then agree for
\* any two choices of them.
C10_TypesIndependent ==
    Scored =>
        LET e == Empties(i)
            st == Pre(sbp_true)
            sp == Pre(sbp_pred)
            vt == Pre(pvc_true)
            vp == Pre(pvc_pred)
            sa == Loop(Frame0(st), 1, st, e, sp, e)
            sb == Loop(Frame0(st), 1, st, st, sp, sp)
            va == Loop(Frame0(e), 1, e, vt, e, vp)
            vb == Loop(Frame0(vt), 1, vt, vt, vp, vp)
        IN  /\ \A x \in {sa, sb} :
                  /\ x.s_tp = s_tp /\ x.s_fp = s_fp /\ x.s_fn = s_fn
                  /\ x.s_score = Pre(s_score)
                  /\ ReturnedCompact => Score1(x) = retval.Score1
            /\ \A x \in {va, vb} :
                  /\ x.v_tp = v_tp /\ x.v_fp = v_fp /\ x.v_fn = v_fn
                  /\ x.v_score = Pre(v_score)
                  /\ ReturnedCompact => Score2(x) = retval.Score2

\* C10 witness: a compact result over two recordings where the two types
\* have different counts in the last recording and different totals.
C10_Witness ==
    /\ ReturnedCompact
    /\ i = 2
    /\ SCounts # VCounts
    /\ retval.Score1 < 0
    /\ retval.Score2 < 0
    /\ retval.Score1 # retval.Score2

----------------------------------------------------------------------------
(* Claims about the detailed result. *)

\* the call returned in detailed mode
ReturnedDetailed == pc = "done" /\ verbose >= 1

\* C11: the detailed result agrees with the compact result of the call on
\* the same four lists: class_loss['S'] = -Score_SPB_total, class_loss['V']
\* = -Score_PVC_total, total_loss = -(Score_SPB_total + Score_PVC_total),
\* so total_loss >= 0 and total_loss = class_loss['S'] + class_loss['V'].
C11_DetailedAgrees ==
    ReturnedDetailed =>
        LET c == compute_metrics(sbp_true, pvc_true, sbp_pred, pvc_pred, 0)
        IN  /\ retval.kind = "CFG"
            /\ c.kind = "tuple"
            /\ retval.class_loss.S = 0 - c.Score1
            /\ retval.class_loss.V = 0 - c.Score2
            /\ retval.total_loss = 0 - (c.Score1 + c.Score2)
            /\ retval.total_loss >= 0
            /\ retval.total_loss = retval.class_loss.S + retval.class_loss.V

\* C11 witness: a detailed result over two recordings with different,
\* non-zero losses of the two types.
C11_Witness ==
    /\ ReturnedDetailed
    /\ i = 2
    /\ retval.class_loss.S > 0
    /\ retval.class_loss.V > 0
    /\ retval.class_loss.S # retval.class_loss.V

----------------------------------------------------------------------------
(* More claims about one beat type of one recording. *)

\* the predictions of P (by position) in the closed window r-60 .. r+60
InWindow(P, r) == {j \in 1..Len(P) : r - 60 <= P[j] /\ P[j] <= r + 60}

\* a single reference r against P, with the counts c: r is matched exactly
\* when a prediction lies in the closed window, so one at distance 60 (on
\* either side) matches and predictions at distance 61 or more do not
WindowRule(R, P, c) ==
    Len(R) = 1 =>
        /\ c.tp + c.fp = Cardinality(InWindow(P, R[1]))
        /\ c.tp = 1 <=> InWindow(P, R[1]) # {}
        /\ c.fn = 1 <=> InWindow(P, R[1]) = {}
        /\ (\E j \in 1..Len(P) : P[j] = R[1] - 60 \/ P[j] = R[1] + 60) => c.tp = 1
        /\ (\A j \in 1..Len(P) : P[j] <= R[1] - 61 \/ P[j] >= R[1] + 61) =>
              c.tp = 0 /\ c.fp = 0

\* C13: the tolerance is bias_thr = 0.15 * fs = 60 samples (fs = 400) and
\* the window is inclusive: a prediction matches a reference exactly when
\* their distance is <= 60, on both sides of the reference.
C13_InclusiveWindow ==
    /\ fs = 400
    /\ bias_thr = 60
    /\ Scored =>
          /\ WindowRule(sbp_true[i], sbp_pred[i], SCounts)
          /\ WindowRule(pvc_true[i], pvc_pred[i], VCounts)

\* C13 witness: an SPB prediction 60 samples above its reference, matched,
\* and a PVC prediction 61 samples below its reference, not matched.
C13_Witness ==
    /\ Scored
    /\ Len(sbp_true[i]) = 1 /\ Len(sbp_pred[i]) = 1
    /\ sbp_pred[i][1] = sbp_true[i][1] + 60
    /\ s_tp = 1 /\ s_fn = 0
    /\ Len(pvc_true[i]) = 1 /\ Len(pvc_pred[i]) = 1
    /\ pvc_pred[i][1] = pvc_true[i][1] - 61
    /\ v_tp = 0 /\ v_fn = 1

----------------------------------------------------------------------------
(* Purity. *)

----------------------------------------------------------------------------
(* Duplicates, pairs, order and perfect predictions. *)

\* the references of R (by position) that are near p
RefsNear(R, p) == {k \in 1..Len(R) : Near(p, R[k])}

\* C15: predictions are not deduplicated.  With R non-empty, one more copy
\* of a prediction that P already holds adds to fp the number of references
\* near it and leaves tp and fn as they are; k predictions near a single
\* reference give tp = 1 and fp = k - 1.
C15_DuplicatesCount ==
    Scored =>
        /\ Len(sbp_true[i]) > 0 =>
              \A j \in 1..Len(sbp_pred[i]) :
                  LET c == SbpCounts(sbp_true[i],
                                     Append(sbp_pred[i], sbp_pred[i][j]))
                  IN  /\ c.tp = s_tp
                      /\ c.fn = s_fn
                      /\ c.fp = s_fp + Cardinality(RefsNear(sbp_true[i], sbp_pred[i][j]))
        /\ (/\ Len(sbp_true[i]) = 1
            /\ Len(sbp_pred[i]) >= 1
            /\ \A j \in 1..Len(sbp_pred[i]) : Near(sbp_pred[i][j], sbp_true[i][1]))
              => s_tp = 1 /\ s_fp = Len(sbp_pred[i]) - 1 /\ s_fn = 0
        /\ Len(pvc_true[i]) > 0 =>
              \A j \in 1..Len(pvc_pred[i]) :
                  LET c == PvcCounts(pvc_true[i],
                                     Append(pvc_pred[i], pvc_pred[i][j]))
                  IN  /\ c.tp = v_tp
                      /\ c.fn = v_fn
                      /\ c.fp = v_fp + Cardinality(RefsNear(pvc_true[i], pvc_pred[i][j]))
        /\ (/\ Len(pvc_true[i]) = 1
            /\ Len(pvc_pred[i]) >= 1
            /\ \A j \in 1..Len(pvc_pred[i]) : Near(pvc_pred[i][j], pvc_true[i][1]))
              => v_tp = 1 /\ v_fp = Len(pvc_pred[i]) - 1 /\ v_fn = 0

\* C15 witness: three predictions near a single reference, two of them
\* equal: tp = 1 and fp = 2.
C15_Witness ==
    /\ Scored
    /\ Len(sbp_true[i]) = 1
    /\ Len(sbp_pred[i]) = 3
    /\ sbp_pred[i][1] = sbp_pred[i][2]
    /\ sbp_pred[i][3] # sbp_pred[i][1]
    /\ s_tp = 1 /\ s_fp = 2 /\ s_fn = 0

\* the pairs (reference, prediction), by position, that are near each other
NearPairs(R, P) ==
    {q \in (1..Len(R)) \X (1..Len(P)) : Near(P[q[2]], R[q[1]])}

\* the counts c of a non-empty R against P: tp + fp is the number of near
\* pairs, and fp <= |R| * (|P| - 1) for a non-empty P
PairRule(R, P, c) ==
    Len(R) > 0 =>
        /\ c.tp + c.fp = Cardinality(NearPairs(R, P))
        /\ Len(P) > 0 => c.fp <= Len(R) * (Len(P) - 1)

\* C16: with R non-empty, tp + fp is the number of pairs (r, p) within 60
\* of each other, a prediction near several references counting once for
\* each, and fp <= |R| * (|P| - 1) when P is non-empty.
C16_PairCount ==
    Scored =>
        /\ PairRule(sbp_true[i], sbp_pred[i], SCounts)
        /\ PairRule(pvc_true[i], pvc_pred[i], VCounts)

\* C16 witness: three distinct references and two predictions near all of
\* them: six pairs, tp = 3 and fp = 3, more than the two predictions.
C16_Witness ==
    /\ Scored
    /\ Len(sbp_true[i]) = 3
    /\ Cardinality({sbp_true[i][k] : k \in 1..3}) = 3
    /\ Len(sbp_pred[i]) = 2
    /\ s_tp = 3
    /\ s_fp = 3
    /\ s_fp > Len(sbp_pred[i])

\* C17: the counts and the score of a beat type of a recording are those
\* of any permutation of its prediction sequence and any permutation of
\* its reference sequence: neither needs to be sorted.
C17_OrderOfIndices ==
    Scored =>
        /\ \A g \in Perms(Len(sbp_true[i])), f \in Perms(Len(sbp_pred[i])) :
              LET c == SbpCounts(Reorder(sbp_true[i], g), Reorder(sbp_pred[i], f))
              IN  c = SCounts /\ ScoreOf(c.fp, c.fn) = s_score[i]
        /\ \A g \in Perms(Len(pvc_true[i])), f \in Perms(Len(pvc_pred[i])) :
              LET c == PvcCounts(Reorder(pvc_true[i], g), Reorder(pvc_pred[i], f))
              IN  c = VCounts /\ ScoreOf(c.fp, c.fn) = v_score[i]

\* C17 witness: predictions in descending order, one of them matching the
\* first reference only after a prediction that is too far above it.
C17_Witness ==
    /\ Scored
    /\ Len(sbp_true[i]) = 2
    /\ Len(sbp_pred[i]) = 2
    /\ sbp_pred[i][1] > sbp_pred[i][2]
    /\ sbp_pred[i][1] > sbp_true[i][1] + 60
    /\ Near(sbp_pred[i][2], sbp_true[i][1])
    /\ s_tp >= 1

\* no index occurs twice in R
DupFree(R) == \A a, b \in 1..Len(R) : R[a] = R[b] => a = b

\* two distinct references of R are within 60 of each other
HasClosePair(R) == \E a, b \in 1..Len(R) : a # b /\ Near(R[a], R[b])

\* the counts c and the score sc of a prediction P that equals its
\* duplicate-free reference R
PerfectRule(R, P, c, sc) ==
    (P = R /\ DupFree(R)) =>
        /\ ~HasClosePair(R) =>
              c = [tp |-> Len(R), fp |-> 0, fn |-> 0] /\ sc = 0
        /\ HasClosePair(R) => c.fp >= 2 /\ sc < 0

\* C18: a perfect prediction (P = R, duplicate-free) scores 0 with tp = |R|
\* and fp = fn = 0 when every two distinct references are more than 60
\* apart; when two distinct references are within 60 of each other it has
\* fp >= 2 and a score < 0.
C18_PerfectPrediction ==
    Scored =>
        /\ PerfectRule(sbp_true[i], sbp_pred[i], SCounts, s_score[i])
        /\ PerfectRule(pvc_true[i], pvc_pred[i], VCounts, v_score[i])

\* C18 witness: two references exactly 60 apart, predicted exactly:
\* tp = 2, fp = 2 and the score is -2.
C18_Witness ==
    /\ Scored
    /\ sbp_pred[i] = sbp_true[i]
    /\ Len(sbp_true[i]) = 2
    /\ sbp_true[i][2] = sbp_true[i][1] + 60
    /\ s_tp = 2 /\ s_fp = 2 /\ s_fn = 0
    /\ s_score[i] = 0 - 2

====
